---- MODULE Spec2Model ----
(***************************************************************************)
(* Model of Calcular_IPv4/ipcalc.py: the IPv4 network calculator.          *)
(*                                                                         *)
(* A Python str is a sequence of one-character strings.  A Python int is   *)
(* unbounded; it is represented by the sequence of its binary digits,      *)
(* least significant first, without high zero digits (so 0 is <<>>).       *)
(* Small counts (prefix lengths, octets, string positions) are naturals.   *)
(*                                                                         *)
(* The run is modelled under Python's value semantics: print always        *)
(* succeeds (stdout encodes every line) and list(network.hosts()) is kept  *)
(* as the range it enumerates, however long.                               *)
(***************************************************************************)
EXTENDS Integers, Sequences, FiniteSets, TLC

(***************************************************************************)
(* Bounds of the checked input space.                                      *)
(***************************************************************************)
\* most command-line arguments of an invocation
MaxArgs == 3

Max(a, b) == IF a >= b THEN a ELSE b
Min(a, b) == IF a <= b THEN a ELSE b

(***************************************************************************)
(* str                                                                     *)
(***************************************************************************)
DigitChars == <<"0", "1", "2", "3", "4", "5", "6", "7", "8", "9">>

\* c.isascii() and c.isdigit() for one character
IsDigit(c) == \E d \in 1..10 : DigitChars[d] = c

DigitVal(c) == (CHOOSE d \in 1..10 : DigitChars[d] = c) - 1

\* s.isascii() and s.isdigit(): false for the empty string
IsDigits(s) == Len(s) > 0 /\ \A i \in 1..Len(s) : IsDigit(s[i])

IsSpace(c) == c \in {" ", "\t", "\n"}

\* s.strip()
Strip(s) ==
    LET keep == {i \in 1..Len(s) : ~IsSpace(s[i])}
        lo == CHOOSE i \in keep : \A j \in keep : i <= j
        hi == CHOOSE i \in keep : \A j \in keep : i >= j
    IN  IF keep = {} THEN <<>> ELSE SubSeq(s, lo, hi)

\* c in s
Contains(s, c) == \E i \in 1..Len(s) : s[i] = c

\* a startswith that never matches: the '/'-prefixed second token is not
\* told apart from a dotted mask
StartsWithNever(s, c) == FALSE

\* s.startswith(c)
StartsWith(s, c) == Len(s) > 0 /\ s[1] = c

\* s.split(c): the pieces between the occurrences of c, empty pieces kept
RECURSIVE Split(_, _)
Split(s, c) ==
    IF ~Contains(s, c) THEN <<s>>
    ELSE LET i == CHOOSE k \in 1..Len(s) :
                      s[k] = c /\ \A j \in 1..(k - 1) : s[j] # c
         IN  <<SubSeq(s, 1, i - 1)>> \o Split(SubSeq(s, i + 1, Len(s)), c)

\* c.join(parts)
RECURSIVE Join(_, _)
Join(parts, c) ==
    IF Len(parts) = 0 THEN <<>>
    ELSE IF Len(parts) = 1 THEN parts[1]
    ELSE parts[1] \o <<c>> \o Join(Tail(parts), c)

\* int(s, 10) for a string of decimal digits
RECURSIVE ParseDec(_)
ParseDec(s) ==
    IF Len(s) = 0 THEN 0
    ELSE 10 * ParseDec(SubSeq(s, 1, Len(s) - 1)) + DigitVal(s[Len(s)])

\* str(n) for a natural n
RECURSIVE StrOfNat(_)
StrOfNat(n) ==
    IF n < 10 THEN <<DigitChars[n + 1]>>
    ELSE StrOfNat(n \div 10) \o <<DigitChars[(n % 10) + 1]>>

(***************************************************************************)
(* int                                                                     *)
(***************************************************************************)
Bit(x, i) == IF i <= Len(x) THEN x[i] ELSE 0

\* drop high zero digits
Norm(x) ==
    LET ones == {i \in 1..Len(x) : x[i] = 1}
    IN  IF ones = {} THEN <<>>
        ELSE SubSeq(x, 1, CHOOSE i \in ones : \A j \in ones : i >= j)

\* the int of a natural
RECURSIVE IntOf(_)
IntOf(n) == IF n = 0 THEN <<>> ELSE <<n % 2>> \o IntOf(n \div 2)

\* the natural of a small int
RECURSIVE NatOf(_)
NatOf(x) == IF Len(x) = 0 THEN 0 ELSE x[1] + 2 * NatOf(Tail(x))

\* x & y, x | y, x ^ y
BitAnd(x, y) == Norm([i \in 1..Max(Len(x), Len(y)) |-> Bit(x, i) * Bit(y, i)])
BitOr(x, y) == Norm([i \in 1..Max(Len(x), Len(y)) |-> Max(Bit(x, i), Bit(y, i))])
BitXor(x, y) == Norm([i \in 1..Max(Len(x), Len(y)) |-> (Bit(x, i) + Bit(y, i)) % 2])

\* x >> k, x << k
Shr(x, k) == SubSeq(x, k + 1, Len(x))
Shl(x, k) == IF Len(x) = 0 THEN <<>> ELSE [i \in 1..k |-> 0] \o x

\* x + y
RECURSIVE AddFrom(_, _, _, _)
AddFrom(x, y, i, c) ==
    IF i > Max(Len(x), Len(y)) THEN (IF c = 1 THEN <<1>> ELSE <<>>)
    ELSE LET s == Bit(x, i) + Bit(y, i) + c
         IN  <<s % 2>> \o AddFrom(x, y, i + 1, s \div 2)
Add(x, y) == Norm(AddFrom(x, y, 1, 0))

\* x < y, x <= y
Less(x, y) ==
    \E i \in 1..Max(Len(x), Len(y)) :
        /\ Bit(x, i) < Bit(y, i)
        /\ \A j \in (i + 1)..Max(Len(x), Len(y)) : Bit(x, j) = Bit(y, j)
Leq(x, y) == x = y \/ Less(x, y)

\* x - y, for y <= x
RECURSIVE SubFrom(_, _, _, _)
SubFrom(x, y, i, b) ==
    IF i > Len(x) THEN <<>>
    ELSE LET d == Bit(x, i) - Bit(y, i) - b
         IN  <<d % 2>> \o SubFrom(x, y, i + 1, IF d < 0 THEN 1 ELSE 0)
Sub(x, y) == Norm(SubFrom(x, y, 1, 0))

One == <<1>>

\* str(x): decimal digits of an int, by doubling a decimal accumulator
\* (kept least significant digit first) for each binary digit from the top
RECURSIVE DoubleDec(_, _)
DoubleDec(dec, c) ==
    IF Len(dec) = 0 THEN (IF c = 0 THEN <<>> ELSE <<c>>)
    ELSE LET v == 2 * dec[1] + c
         IN  <<v % 10>> \o DoubleDec(Tail(dec), v \div 10)
RECURSIVE DecOf(_)
DecOf(x) == IF Len(x) = 0 THEN <<>> ELSE DoubleDec(DecOf(Tail(x)), x[1])
StrOfInt(x) ==
    LET dec == DecOf(x)
    IN  IF Len(dec) = 0 THEN <<"0">>
        ELSE [i \in 1..Len(dec) |-> DigitChars[dec[Len(dec) + 1 - i] + 1]]

\* int.from_bytes(octets, 'big')
RECURSIVE FromBytes(_)
FromBytes(octets) ==
    IF Len(octets) = 0 THEN <<>>
    ELSE Add(Shl(FromBytes(SubSeq(octets, 1, Len(octets) - 1)), 8),
             IntOf(octets[Len(octets)]))

\* x.to_bytes(n, 'big')
ToBytes(x, n) ==
    [k \in 1..n |-> NatOf(Norm([i \in 1..8 |-> Bit(x, 8 * (n - k) + i)]))]

(***************************************************************************)
(* The ipaddress operations the program calls.  A fallible operation       *)
(* returns a record whose ok field tells whether it returned (TRUE) or     *)
(* raised (FALSE).                                                         *)
(***************************************************************************)
\* ipaddress.IPV4LENGTH, the _max_prefixlen of the IPv4 classes
IPV4LENGTH == 32

\* _ALL_ONES = 2**IPV4LENGTH - 1, the 0xFFFFFFFF of summarize
AllOnes == [i \in 1..IPV4LENGTH |-> 1]

Raised == [ok |-> FALSE, val |-> <<>>]
Returned(v) == [ok |-> TRUE, val |-> v]

\* _parse_octet: the octet, or -1 where it raises ValueError
ParseOctet(s) ==
    IF Len(s) = 0 THEN -1
    ELSE IF ~IsDigits(s) THEN -1
    ELSE IF Len(s) > 3 THEN -1
    ELSE IF s # <<"0">> /\ s[1] = "0" THEN -1
    ELSE IF ParseDec(s) > 255 THEN -1
    ELSE ParseDec(s)

\* _ip_int_from_string
IpIntFromString(s) ==
    LET octets == Split(s, ".")
    IN  IF Len(s) = 0 THEN Raised
        ELSE IF Len(octets) # 4 THEN Raised
        ELSE IF \E k \in 1..4 : ParseOctet(octets[k]) = -1 THEN Raised
        ELSE Returned(FromBytes([k \in 1..4 |-> ParseOctet(octets[k])]))

\* _string_from_ip_int
StringFromIpInt(x) ==
    LET b == ToBytes(x, 4) IN Join([k \in 1..4 |-> StrOfNat(b[k])], ".")

\* _ip_int_from_prefix
IpIntFromPrefix(prefixlen) == BitXor(AllOnes, Shr(AllOnes, prefixlen))

\* _count_righthand_zero_bits without its case for 0
CountRighthandZeroBitsNoZero(number, bits) ==
    Min(bits, IF number = <<>> THEN 0
              ELSE (CHOOSE i \in 1..Len(number) :
                        number[i] = 1 /\ \A j \in 1..(i - 1) : number[j] = 0) - 1)

\* _count_righthand_zero_bits
CountRighthandZeroBits(number, bits) ==
    IF number = <<>> THEN bits
    ELSE Min(bits, (CHOOSE i \in 1..Len(number) :
                        number[i] = 1 /\ \A j \in 1..(i - 1) : number[j] = 0) - 1)

\* _prefix_from_ip_int: raises when the pattern mixes zeroes and ones
PrefixFromIpInt(x) ==
    LET trailing_zeroes == CountRighthandZeroBits(x, IPV4LENGTH)
        prefixlen == IPV4LENGTH - trailing_zeroes
        leading_ones == Shr(x, trailing_zeroes)
        all_ones == Sub(Shl(One, prefixlen), One)
    IN  IF leading_ones # all_ones THEN Raised ELSE Returned(prefixlen)

\* _prefix_from_prefix_string
PrefixFromPrefixString(s) ==
    IF ~IsDigits(s) THEN Raised
    ELSE IF ~(0 <= ParseDec(s) /\ ParseDec(s) <= IPV4LENGTH) THEN Raised
    ELSE Returned(ParseDec(s))

\* _prefix_from_ip_string, once the string is parsed like an address: a
\* netmask first, the inverted bits (a hostmask) second
PrefixFromIpMask(ip) ==
    IF ~ip.ok THEN Raised
    ELSE IF PrefixFromIpInt(ip.val).ok THEN PrefixFromIpInt(ip.val)
    ELSE PrefixFromIpInt(BitXor(ip.val, AllOnes))

\* _prefix_from_ip_string
PrefixFromIpString(s) == PrefixFromIpMask(IpIntFromString(s))

\* _make_netmask for a str argument: the prefix length, from which the
\* netmask is IpIntFromPrefix
MakeNetmask(arg) ==
    IF PrefixFromPrefixString(arg).ok THEN PrefixFromPrefixString(arg)
    ELSE PrefixFromIpString(arg)

\* IPv4Address(str)
IPv4Address(s) == IF Contains(s, "/") THEN Raised ELSE IpIntFromString(s)

NoNetwork ==
    [ok |-> FALSE, network_address |-> <<>>, netmask |-> <<>>, prefixlen |-> 0]

\* IPv4Network.__init__ after its two parses: a is IPv4Address(addr), m the
\* prefix length of _make_netmask(mask)
IPv4NetworkFrom(a, m, strict) ==
    IF ~a.ok \/ ~m.ok THEN NoNetwork
    ELSE IF BitAnd(a.val, IpIntFromPrefix(m.val)) # a.val /\ strict THEN NoNetwork
    ELSE [ok |-> TRUE, network_address |-> BitAnd(a.val, IpIntFromPrefix(m.val)),
          netmask |-> IpIntFromPrefix(m.val), prefixlen |-> m.val]

\* IPv4Network((addr, mask), strict); mask is a one-element sequence holding
\* the mask string, or empty where the address had no '/' (mask defaults to
\* _max_prefixlen)
IPv4NetworkOf(addr, mask, strict) ==
    IPv4NetworkFrom(IPv4Address(addr),
                    IF Len(mask) = 0 THEN Returned(IPV4LENGTH)
                    ELSE MakeNetmask(mask[1]),
                    strict)

\* IPv4Network(str), strict: _split_optional_netmask allows one '/'
IPv4Network(address) ==
    IF Len(Split(address, "/")) > 2 THEN NoNetwork
    ELSE IPv4NetworkOf(Split(address, "/")[1], Tail(Split(address, "/")), TRUE)

\* a broadcast address that sets the network bits instead of the host bits
BroadcastAddressNetmask(network) ==
    BitOr(network.network_address, network.netmask)

\* a count of addresses kept in 32 bits
NumAddresses32(network) ==
    BitAnd(Add(Sub(BitOr(network.network_address, BitXor(network.netmask, AllOnes)),
                   network.network_address), One), AllOnes)

\* network.hostmask, network.broadcast_address, network.num_addresses
Hostmask(network) == BitXor(network.netmask, AllOnes)
BroadcastAddress(network) == BitOr(network.network_address, Hostmask(network))
NumAddresses(network) ==
    Add(Sub(BroadcastAddress(network), network.network_address), One)

\* hosts that begin at the network address
HostsFromNetwork(network) ==
    [start |-> network.network_address,
     stop |-> BitOr(network.network_address, BitXor(network.netmask, AllOnes))]

\* network.hosts(), kept as the two ends of the range it iterates over:
\* range(network + 1, broadcast); for a /31 the constructor replaces hosts
\* by __iter__, range(network, broadcast + 1); for a /32 by the one address
Hosts(network) ==
    IF network.prefixlen = IPV4LENGTH - 1
    THEN [start |-> network.network_address,
          stop |-> Add(BroadcastAddress(network), One)]
    ELSE IF network.prefixlen = IPV4LENGTH
    THEN [start |-> network.network_address,
          stop |-> Add(network.network_address, One)]
    ELSE [start |-> Add(network.network_address, One),
          stop |-> BroadcastAddress(network)]

\* len(list(r)), list(r)[0], list(r)[-1]
RangeLen(r) == IF Less(r.start, r.stop) THEN Sub(r.stop, r.start) ELSE <<>>
RangeFirst(r) == r.start
RangeLast(r) == Sub(r.stop, One)

\* IPv4Interface.__init__ after its parses: a is IPv4Address(addr), network
\* is IPv4Network((addr, mask), strict=False)
IPv4InterfaceFrom(parts, a, network) ==
    IF Len(parts) > 2 \/ ~a.ok \/ ~network.ok
    THEN [ok |-> FALSE, ip |-> <<>>, network |-> NoNetwork]
    ELSE [ok |-> TRUE, ip |-> a.val, network |-> network]

\* IPv4Interface(str)
IPv4Interface(address) ==
    IPv4InterfaceFrom(Split(address, "/"),
                      IPv4Address(Split(address, "/")[1]),
                      IPv4NetworkOf(Split(address, "/")[1],
                                    Tail(Split(address, "/")), FALSE))

(***************************************************************************)
(* ipcalc.py                                                               *)
(***************************************************************************)
\* an exception: the text of its message (written without diacritics) and
\* the value formatted into it
Exc(text, value) == [text |-> text, value |-> value]
NoExc == Exc("", <<>>)

\* parse_input, the dotted-mask branch: net is
\* IPv4Network(f"0.0.0.0/{mask}")
MaskToTarget(ip, mask, net) ==
    IF net.ok
    THEN [ok |-> TRUE, val |-> ip \o <<"/">> \o StrOfNat(net.prefixlen),
          exc |-> NoExc]
    ELSE [ok |-> FALSE, val |-> <<>>, exc |-> Exc("Mascara invalida: ", mask)]

\* parse_input(argv): the target string, or the ValueError it raises
parse_input(args) ==
    IF Len(args) = 1 THEN
        IF Contains(Strip(args[1]), "/")
        THEN [ok |-> TRUE, val |-> Strip(args[1]), exc |-> NoExc]
        ELSE [ok |-> FALSE, val |-> <<>>,
              exc |-> Exc("Formato invalido. Use IP/CIDR ou 'IP MASCARA'.", <<>>)]
    ELSE IF Len(args) = 2 THEN
        IF StartsWith(Strip(args[2]), "/")
        THEN [ok |-> TRUE, val |-> Strip(args[1]) \o Strip(args[2]), exc |-> NoExc]
        ELSE MaskToTarget(Strip(args[1]), Strip(args[2]),
                          IPv4Network(<<"0", ".", "0", ".", "0", ".", "0", "/">>
                                      \o Strip(args[2])))
    ELSE [ok |-> FALSE, val |-> <<>>,
          exc |-> Exc("Use: script.py <IP/CIDR>  OU  script.py <IP> <MASCARA>", <<>>)]

\* None, or an IPv4Address object
None == [some |-> FALSE, val |-> <<>>]
Some(x) == [some |-> TRUE, val |-> x]

\* str(x) if x else "N/A": an IPv4Address object is always true, None false
NA == <<"N", "/", "A">>
StrOrNA(x) == IF x.some THEN StringFromIpInt(x.val) ELSE NA

NoResult ==
    [input_ip |-> <<>>, network_address |-> <<>>, netmask |-> <<>>,
     prefix |-> <<>>, broadcast |-> <<>>, total_addresses |-> <<>>,
     num_usable |-> <<>>, first_usable |-> <<>>, last_usable |-> <<>>,
     gateway_suggestion |-> <<>>, wildcard |-> <<>>]

\* usable hosts whose degenerate case is the /32 alone
UsableHostsOnly32(network, hosts_list, num_usable) ==
    IF network.prefixlen >= 32 \/ num_usable = <<>>
    THEN [num_usable |-> <<>>, first_usable |-> None,
          last_usable |-> None, gateway |-> None]
    ELSE [num_usable |-> num_usable,
          first_usable |-> Some(RangeFirst(hosts_list)),
          last_usable |-> Some(RangeLast(hosts_list)),
          gateway |-> Some(RangeFirst(hosts_list))]

\* summarize, "Hosts utilizaveis": the count of usable hosts, the first and
\* the last of them and the suggested gateway; hosts_list is
\* list(network.hosts()) and num_usable its length
UsableHosts(network, hosts_list, num_usable) ==
    IF network.prefixlen >= 31
    THEN [num_usable |-> <<>>, first_usable |-> None,
          last_usable |-> None, gateway |-> None]
    ELSE IF Less(<<>>, num_usable)
    THEN [num_usable |-> num_usable,
          first_usable |-> Some(RangeFirst(hosts_list)),
          last_usable |-> Some(RangeLast(hosts_list)),
          gateway |-> Some(RangeFirst(hosts_list))]
    ELSE [num_usable |-> <<>>, first_usable |-> None,
          last_usable |-> None, gateway |-> None]

\* summarize, the result dict of an interface address ip in network, with
\* the usable hosts found
Result(ip, network, usable) ==
    [input_ip |-> StringFromIpInt(ip),
     network_address |-> StringFromIpInt(network.network_address),
     netmask |-> StringFromIpInt(network.netmask),
     prefix |-> <<"/">> \o StrOfNat(network.prefixlen),
     broadcast |-> StringFromIpInt(BroadcastAddress(network)),
     total_addresses |-> NumAddresses(network),
     num_usable |-> usable.num_usable,
     first_usable |-> StrOrNA(usable.first_usable),
     last_usable |-> StrOrNA(usable.last_usable),
     gateway_suggestion |-> StrOrNA(usable.gateway),
     wildcard |-> StringFromIpInt(BitXor(network.netmask, AllOnes))]

\* summarize, once IPv4Interface(target) has returned or raised
Summary(target, iface) ==
    IF ~iface.ok
    THEN [ok |-> FALSE, val |-> NoResult,
          exc |-> Exc("Entrada invalida: ", target)]
    ELSE [ok |-> TRUE, exc |-> NoExc,
          val |-> Result(iface.ip, iface.network,
                         UsableHosts(iface.network, Hosts(iface.network),
                                     RangeLen(Hosts(iface.network))))]

\* summarize(target): the result dict, or the ValueError it raises
summarize(target) == Summary(target, IPv4Interface(target))

\* a printed line: the literal text of the format string and the value
\* formatted after it
Line(text, value) == [text |-> text, value |-> value]

\* the lines of pretty_print(d), in order
pretty_print(d) ==
    << Line("Input IP:           ", d.input_ip),
       Line("Network:            ", d.network_address \o <<" ">> \o d.prefix),
       Line("Netmask:            ", d.netmask),
       Line("Wildcard:           ", d.wildcard),
       Line("Broadcast:          ", d.broadcast),
       Line("Total enderecos:    ", StrOfInt(d.total_addresses)),
       Line("Hosts utilizaveis:  ", StrOfInt(d.num_usable)),
       Line("Primeiro host:      ", d.first_usable),
       Line("Ultimo host:        ", d.last_usable),
       Line("Gateway sugerido:   ", d.gateway_suggestion) >>

\* the usage lines printed when no argument is given
UsageLines ==
    << Line("Uso: ipcalc.py <IP/CIDR>  OU  ipcalc.py <IP> <MASCARA>", <<>>),
       Line("Exemplos: ipcalc.py 192.168.1.10/24", <<>>),
       Line("          ipcalc.py 10.0.0.2 255.255.255.252", <<>>) >>

\* print(f"Erro: {e}")
ErroLine(e) == Line("Erro: " \o e.text, e.value)

(***************************************************************************)
(* The invocations checked: the argument lists sys.argv[1:] can hold.      *)
(***************************************************************************)
\* the addresses the invocations are built from, as four octets
SampleAddrs ==
    {<<192, 168, 1, 10>>, <<10, 0, 0, 2>>, <<10, 0, 0, 1>>, <<192, 168, 1, 1>>,
     <<0, 0, 0, 0>>, <<255, 255, 255, 255>>, <<172, 31, 254, 129>>}

Prefixes == 0..IPV4LENGTH

RECURSIVE Pow2(_)
Pow2(n) == IF n = 0 THEN 1 ELSE 2 * Pow2(n - 1)

\* the dotted-decimal text of four octets
Dotted(o) == Join([k \in 1..4 |-> StrOfNat(o[k])], ".")

\* the octets of the mask 1^n 0^(32-n), and of its complement
MaskOctets(n) ==
    [k \in 1..4 |-> 256 - Pow2(8 - Max(0, Min(8, n - 8 * (k - 1))))]
WildOctets(n) == [k \in 1..4 |-> 255 - MaskOctets(n)[k]]

AddrStr == [a \in SampleAddrs |-> Dotted(a)]
MaskStr == [n \in Prefixes |-> Dotted(MaskOctets(n))]
WildStr == [n \in Prefixes |-> Dotted(WildOctets(n))]
CidrStr == [a \in SampleAddrs, n \in Prefixes |-> AddrStr[a] \o <<"/">> \o StrOfNat(n)]

\* the four shapes of a well-formed invocation of address a and prefix n
Forms == {"a/n", "a /n", "a M", "a/M"}
ArgvOf ==
    [a \in SampleAddrs, n \in Prefixes, f \in Forms |->
        CASE f = "a/n" -> <<CidrStr[a, n]>>
          [] f = "a /n" -> <<AddrStr[a], <<"/">> \o StrOfNat(n)>>
          [] f = "a M" -> <<AddrStr[a], MaskStr[n]>>
          [] f = "a/M" -> <<AddrStr[a] \o <<"/">> \o MaskStr[n]>>]
WellFormed == {ArgvOf[a, n, f] : a \in SampleAddrs, n \in Prefixes, f \in Forms}

\* second tokens that are no mask 1^n 0^(32-n) in dotted decimal but that
\* ipaddress reads as one: a hostmask 0^(32-n) 1^n, a bare prefix length
LenientMasks ==
    {WildStr[n] : n \in 1..(IPV4LENGTH - 1)} \cup {StrOfNat(n) : n \in Prefixes}

\* second tokens that are no mask at all
BadMasks ==
    {<<"2", "5", "5", ".", "0", ".", "2", "5", "5", ".", "0">>,
     <<"2", "5", "5", ".", "2", "5", "5", ".", "0", ".", "2", "5", "5">>,
     <<"0", ".", "2", "5", "5", ".", "0", ".", "2", "5", "5">>,
     <<"2", "5", "6", ".", "0", ".", "0", ".", "0">>,
     <<"2", "5", "5", ".", "2", "5", "5", ".", "2", "5", "5">>,
     <<"2", "5", "5", ".", "2", "5", "5", ".", "2", "5", "5", ".", "0", ".", "0">>,
     <<"a", "b", "c">>,
     <<>>,
     <<"-", "1">>,
     <<"3", "3">>,
     <<"2", "5", "5", ".", "2", "5", "5", ".", "2", "5", "5", ".", "0", "/", "2", "4">>,
     <<"2", "5", "5", ".", "2", "5", "5", ".", "0", "2", "5", "5", ".", "0">>}

\* first tokens that are no address
BadAddrs ==
    {<<"2", "5", "6", ".", "1", ".", "1", ".", "1">>,
     <<"1", ".", "2", ".", "3">>,
     <<"a", ".", "b", ".", "c", ".", "d">>,
     <<>>,
     <<"0", "1", ".", "2", ".", "3", ".", "4">>,
     <<"1", ".", "2", ".", "3", ".", "4", ".", "5">>,
     <<"1", ".", ".", "3", ".", "4">>,
     <<"1", ".", "2", ".", "3", ".", "4", "/", "8">>}

\* texts after the '/' that are no prefix length and no mask
BadPrefixes ==
    {<<"3", "3">>,
     <<>>,
     <<"x">>,
     <<"-", "1">>,
     <<"+", "8">>,
     <<"2", "5", "5", ".", "0", ".", "2", "5", "5", ".", "0">>,
     <<"1", ".", "2", ".", "3", ".", "4">>,
     <<"2", "4", "/", "5">>}

\* single tokens without a '/'
NoSlash ==
    {<<"1", "9", "2", ".", "1", "6", "8", ".", "1", ".", "1", "0">>,
     <<"a", "b", "c">>,
     <<>>,
     <<"1", "0", ".", "0", ".", "0", ".", "2", " ", "2", "5", "5", ".", "2", "5", "5", ".", "2", "5", "5", ".", "2", "5", "2">>}

\* the tokens the over-long argument lists are filled with
FillTokens ==
    {<<"1", "0", ".", "0", ".", "0", ".", "1">>,
     <<"/", "2", "4">>}

RECURSIVE SeqsOf(_, _)
SeqsOf(S, n) ==
    IF n = 0 THEN {<<>>}
    ELSE {Append(q, t) : q \in SeqsOf(S, n - 1), t \in S}

TooMany == UNION {SeqsOf(FillTokens, n) : n \in 3..MaxArgs}

Padded ==
    {<<<<" ">> \o CidrStr[<<10, 0, 0, 2>>, 30] \o <<" ", "\n">>>>,
     <<<<" ">> \o AddrStr[<<10, 0, 0, 2>>], <<"\t">> \o MaskStr[30] \o <<" ">>>>,
     <<AddrStr[<<10, 0, 0, 2>>] \o <<" ">>, <<" ", "/", "3", "0">>>>,
     <<AddrStr[<<10, 0, 0, 2>>], <<" ">> \o <<"2", "5", "5", ".", "0", ".", "2", "5", "5", ".", "0">>>>}

Invocations ==
    WellFormed
    \cup {<<AddrStr[a], m>> : a \in {<<10, 0, 0, 1>>, <<192, 168, 1, 10>>},
                              m \in LenientMasks \cup BadMasks}
    \cup {<<b \o <<"/", "2", "4">>>> : b \in BadAddrs}
    \cup {<<b, <<"/", "2", "4">>>> : b \in BadAddrs}
    \cup {<<b, MaskStr[24]>> : b \in BadAddrs}
    \cup {<<AddrStr[<<10, 0, 0, 1>>] \o <<"/">> \o x>> : x \in BadPrefixes}
    \cup {<<AddrStr[<<10, 0, 0, 1>>], <<"/">> \o x>> : x \in BadPrefixes}
    \cup {<<t>> : t \in NoSlash}
    \cup Padded
    \cup {<<>>}
    \cup TooMany

(***************************************************************************)
(* The run of the script: the __main__ block.                              *)
(***************************************************************************)
VARIABLES
    argv,       \* sys.argv[1:]
    pc,         \* the statement of the __main__ block the run is at
    target,     \* the value of parse_input(args), <<>> before
    out,        \* the value of summarize(target), NoResult before
    exc,        \* the exception the except clause caught, NoExc if none
    stdout,     \* the lines printed so far
    exitCode    \* the exit status of the process, -1 while it runs

vars == <<argv, pc, target, out, exc, stdout, exitCode>>

Init ==
    /\ argv \in Invocations
    /\ pc = "main"
    /\ target = <<>>
    /\ out = NoResult
    /\ exc = NoExc
    /\ stdout = <<>>
    /\ exitCode = -1

\* len(sys.argv) <= 1: print the usage and sys.exit(1); SystemExit is no
\* Exception, so the except clause lets it through
Usage ==
    /\ pc = "main"
    /\ Len(argv) = 0
    /\ stdout' = stdout \o UsageLines
    /\ exitCode' = 1
    /\ pc' = "exited"
    /\ UNCHANGED <<argv, target, out, exc>>

\* a parse step that already prints the first report line
CallParseInputEcho ==
    /\ pc = "main"
    /\ Len(argv) > 0
    /\ \E r \in {parse_input(argv)} :
           /\ target' = r.val
           /\ exc' = r.exc
           /\ pc' = IF r.ok THEN "summarize" ELSE "except"
           /\ stdout' = IF r.ok
                        THEN Append(stdout, Line("Input IP:           ", r.val))
                        ELSE stdout
    /\ UNCHANGED <<argv, out, exitCode>>

\* target = parse_input(args)
CallParseInput ==
    /\ pc = "main"
    /\ Len(argv) > 0
    /\ \E r \in {parse_input(argv)} :
           /\ target' = r.val
           /\ exc' = r.exc
           /\ pc' = IF r.ok THEN "summarize" ELSE "except"
    /\ UNCHANGED <<argv, out, stdout, exitCode>>

\* out = summarize(target)
CallSummarize ==
    /\ pc = "summarize"
    /\ \E r \in {summarize(target)} :
           /\ out' = r.val
           /\ exc' = r.exc
           /\ pc' = IF r.ok THEN "print" ELSE "except"
    /\ UNCHANGED <<argv, target, stdout, exitCode>>

\* pretty_print(out), one print call at a time
PrintLine ==
    /\ pc = "print"
    /\ \E lines \in {pretty_print(out)} :
           /\ stdout' = Append(stdout, lines[Len(stdout) + 1])
           /\ pc' = IF Len(stdout) + 1 = Len(lines) THEN "end" ELSE "print"
    /\ UNCHANGED <<argv, target, out, exc, exitCode>>

\* the script ends without an exception: exit status 0
ExitNormally ==
    /\ pc = "end"
    /\ exitCode' = 0
    /\ pc' = "exited"
    /\ UNCHANGED <<argv, target, out, exc, stdout>>

\* an except clause that exits like the usage path
HandleExceptionExitOne ==
    /\ pc = "except"
    /\ stdout' = Append(stdout, ErroLine(exc))
    /\ exitCode' = 1
    /\ pc' = "exited"
    /\ UNCHANGED <<argv, target, out, exc>>

\* except Exception as e: print the error line and sys.exit(2)
HandleException ==
    /\ pc = "except"
    /\ stdout' = Append(stdout, ErroLine(exc))
    /\ exitCode' = 2
    /\ pc' = "exited"
    /\ UNCHANGED <<argv, target, out, exc>>

Next ==
    \/ Usage
    \/ CallParseInput
    \/ CallSummarize
    \/ PrintLine
    \/ ExitNormally
    \/ HandleException

Spec == Init /\ [][Next]_vars

(***************************************************************************)
(* Properties                                                              *)
(***************************************************************************)
ReportLabels ==
    {"Input IP:           ", "Network:            ", "Netmask:            ",
     "Wildcard:           ", "Broadcast:          ", "Total enderecos:    ",
     "Hosts utilizaveis:  ", "Primeiro host:      ", "Ultimo host:        ",
     "Gateway sugerido:   "}
IsReportLine(l) == l.text \in ReportLabels
NoReportLine == \A i \in 1..Len(stdout) : ~IsReportLine(stdout[i])

ErrTexts ==
    {"Formato invalido. Use IP/CIDR ou 'IP MASCARA'.", "Mascara invalida: ",
     "Use: script.py <IP/CIDR>  OU  script.py <IP> <MASCARA>",
     "Entrada invalida: "}
IsErroLine(l) == \E t \in ErrTexts : l.text = "Erro: " \o t
NoErroLine == \A i \in 1..Len(stdout) : ~IsErroLine(stdout[i])

\* the whole report, and nothing else, is on stdout
ReportPrinted ==
    /\ out # NoResult
    /\ Len(stdout) = 10
    /\ stdout = pretty_print(out)

\* summarize has returned its result
Summarized == pc \in {"print", "end"} \/ (pc = "exited" /\ exitCode = 0)

\* the address a dotted string of the report stands for
Val(s) == IpIntFromString(s).val

\* t occurs in s
IsInfix(t, s) ==
    \E i \in 0..(Len(s) - Len(t)) : SubSeq(s, i + 1, i + Len(t)) = t

\* C1: every invocation with a wrong argument count (none, or more than
\* two) or with a single token without '/' ends with exit code 1 and prints
\* no report line.
UsageError(av) ==
    \/ Len(av) = 0
    \/ Len(av) > 2
    \/ (Len(av) = 1 /\ ~Contains(av[1], "/"))
C1_UsageErrorExitsOne ==
    (pc = "exited" /\ UsageError(argv)) => (exitCode = 1 /\ NoReportLine)

\* C2: in the two-token form, a second token that does not start with '/'
\* and is not one of the 33 dotted masks 1^n 0^(32-n) is rejected with the
\* invalid-mask error naming it, and the run ends with exit code 2.
ContiguousMasks == {MaskStr[n] : n \in Prefixes}
C2_OnlyContiguousMasksAccepted ==
    (/\ pc = "exited"
     /\ Len(argv) = 2
     /\ ~StartsWith(Strip(argv[2]), "/")
     /\ Strip(argv[2]) \notin ContiguousMasks)
    => (/\ exitCode = 2
        /\ stdout = <<ErroLine(Exc("Mascara invalida: ", Strip(argv[2])))>>)

\* C3: the report is all-or-nothing: a finished run has printed either the
\* ten report lines in order and no error line, or no report line at all;
\* an error line never shares stdout with a report line; pretty_print is
\* reached only after parse_input and summarize have both returned.
C3_ReportAllOrNothing ==
    /\ pc = "exited" => ((ReportPrinted /\ NoErroLine) \/ NoReportLine)
    /\ ~NoErroLine => NoReportLine
    /\ ~NoReportLine => (out # NoResult /\ target # <<>> /\ exc = NoExc)
C3_Witness ==
    /\ pc = "exited"
    /\ target # <<>>
    /\ out = NoResult
    /\ Len(stdout) = 1
    /\ IsErroLine(stdout[1])

\* C4: exit codes partition the outcomes: 0 exactly when the report was
\* printed; 1 when no argument is given, with the usage printed and
\* summarize never called; 2 on an invalid address, prefix or mask, with
\* exactly one 'Erro:' line that carries the offending input.
Rejected ==
    {[argv |-> <<AddrStr[a], m>>, offending |-> m] :
        a \in {<<10, 0, 0, 1>>, <<192, 168, 1, 10>>}, m \in BadMasks}
    \cup {[argv |-> <<b \o <<"/", "2", "4">>>>, offending |-> b] : b \in BadAddrs}
    \cup {[argv |-> <<b, <<"/", "2", "4">>>>, offending |-> b] : b \in BadAddrs}
    \cup {[argv |-> <<b, MaskStr[24]>>, offending |-> b] : b \in BadAddrs}
    \cup {[argv |-> <<AddrStr[<<10, 0, 0, 1>>] \o <<"/">> \o x>>, offending |-> x] :
            x \in BadPrefixes}
    \cup {[argv |-> <<AddrStr[<<10, 0, 0, 1>>], <<"/">> \o x>>, offending |-> x] :
            x \in BadPrefixes}
C4_ExitCodes ==
    pc = "exited" =>
        /\ exitCode \in {0, 1, 2}
        /\ exitCode = 0 <=> ReportPrinted
        /\ Len(argv) = 0 =>
            (exitCode = 1 /\ stdout = UsageLines /\ target = <<>> /\ out = NoResult)
        /\ \A c \in Rejected : c.argv = argv =>
            /\ exitCode = 2
            /\ Len(stdout) = 1
            /\ IsErroLine(stdout[1])
            /\ IsInfix(c.offending, stdout[1].value)
C4_Witness ==
    /\ pc = "exited"
    /\ argv = <<AddrStr[<<10, 0, 0, 1>>] \o <<"/", "3", "3">>>>
    /\ exitCode = 2
    /\ stdout = <<ErroLine(Exc("Entrada invalida: ", argv[1]))>>

\* C5: for every address a and prefix p in 0..30, summarize(a/p) reports
\* num_usable = total_addresses - 2, first_usable = network + 1,
\* last_usable = broadcast - 1, gateway = first_usable, with
\* network < first <= last < broadcast, and none of the three is 'N/A'.
C5_UsableRange ==
    \A a \in SampleAddrs, p \in 0..30 :
        (Summarized /\ target = CidrStr[a, p]) =>
            LET net == Val(out.network_address)
                bc == Val(out.broadcast)
                first == Val(out.first_usable)
                last == Val(out.last_usable)
            IN  /\ NA \notin {out.first_usable, out.last_usable,
                              out.gateway_suggestion}
                /\ IpIntFromString(out.first_usable).ok
                /\ IpIntFromString(out.last_usable).ok
                /\ Add(out.num_usable, IntOf(2)) = out.total_addresses
                /\ first = Add(net, One)
                /\ Add(last, One) = bc
                /\ out.gateway_suggestion = out.first_usable
                /\ Less(net, first) /\ Leq(first, last) /\ Less(last, bc)
C5_Witness ==
    /\ pc = "exited"
    /\ target = CidrStr[<<10, 0, 0, 2>>, 30]
    /\ out.num_usable = IntOf(2)
    /\ out.first_usable = Dotted(<<10, 0, 0, 1>>)
    /\ out.last_usable = Dotted(<<10, 0, 0, 2>>)
    /\ out.gateway_suggestion = Dotted(<<10, 0, 0, 1>>)

\* C6: for every address a and prefix p in {31, 32}, summarize(a/p) reports
\* num_usable = 0 and 'N/A' for first_usable, last_usable and the gateway,
\* while total_addresses is 2 for p = 31 and 1 for p = 32.
C6_DegenerateNetworks ==
    \A a \in SampleAddrs, p \in {31, 32} :
        (Summarized /\ target = CidrStr[a, p]) =>
            /\ out.num_usable = IntOf(0)
            /\ out.first_usable = NA
            /\ out.last_usable = NA
            /\ out.gateway_suggestion = NA
            /\ out.total_addresses = IntOf(IF p = 31 THEN 2 ELSE 1)
C6_Witness ==
    /\ pc = "exited"
    /\ target = CidrStr[<<192, 168, 1, 1>>, 31]
    /\ out.num_usable = IntOf(0)
    /\ out.gateway_suggestion = NA
    /\ out.total_addresses = IntOf(2)

\* C7: for every address a and prefix p in 0..32, the result of
\* summarize(a/p) has network = a AND netmask(p), network AND wildcard = 0,
\* wildcard = netmask XOR 0xFFFFFFFF, broadcast = network OR wildcard,
\* network <= input_ip <= broadcast, input_ip = a, and
\* broadcast = network = a when p = 32.
C7_SubnetArithmetic ==
    \A a \in SampleAddrs, p \in Prefixes :
        (Summarized /\ target = CidrStr[a, p]) =>
            LET A == FromBytes(a)
                M == FromBytes(MaskOctets(p))
                ip == Val(out.input_ip)
                net == Val(out.network_address)
                nm == Val(out.netmask)
                wc == Val(out.wildcard)
                bc == Val(out.broadcast)
            IN  /\ nm = M
                /\ net = BitAnd(A, M)
                /\ BitAnd(net, wc) = IntOf(0)
                /\ wc = BitXor(nm, FromBytes(<<255, 255, 255, 255>>))
                /\ bc = BitOr(net, wc)
                /\ Leq(net, ip) /\ Leq(ip, bc)
                /\ out.input_ip = AddrStr[a]
                /\ p = 32 => (bc = net /\ net = A)
C7_Witness ==
    /\ pc = "exited"
    /\ target = CidrStr[<<192, 168, 1, 10>>, 24]
    /\ out.input_ip = Dotted(<<192, 168, 1, 10>>)
    /\ out.network_address = Dotted(<<192, 168, 1, 0>>)
    /\ out.wildcard = Dotted(<<0, 0, 0, 255>>)
    /\ out.broadcast = Dotted(<<192, 168, 1, 255>>)

\* C8: for every mask M = 1^n 0^(32-n), n in 0..32, parse_input([a, M])
\* yields the target a/n, and the netmask summarize reports for it is M.
C8_MaskRoundTrip ==
    \A a \in SampleAddrs, n \in Prefixes :
        (pc # "main" /\ argv = ArgvOf[a, n, "a M"]) =>
            /\ exc = NoExc
            /\ target = CidrStr[a, n]
            /\ pc \notin {"summarize", "except"} => out.netmask = MaskStr[n]
C8_Witness ==
    /\ pc = "exited"
    /\ argv = <<AddrStr[<<10, 0, 0, 2>>], Dotted(<<255, 255, 255, 252>>)>>
    /\ target = AddrStr[<<10, 0, 0, 2>>] \o <<"/", "3", "0">>
    /\ out.netmask = Dotted(<<255, 255, 255, 252>>)

\* C9: for every address a and prefix n in 0..32, the invocations a/n,
\* a /n, a M(n) and a/M(n) all succeed and print the report of a/n.
C9_FormsEquivalent ==
    pc = "exited" =>
        \A a \in SampleAddrs, n \in Prefixes, f \in Forms :
            argv = ArgvOf[a, n, f] =>
                /\ exitCode = 0
                /\ out = summarize(parse_input(ArgvOf[a, n, "a/n"]).val).val
                /\ ReportPrinted
C9_Witness ==
    /\ pc = "exited"
    /\ argv = ArgvOf[<<192, 168, 1, 10>>, 24, "a /n"]
    /\ exitCode = 0
    /\ stdout[2].value = Dotted(<<192, 168, 1, 0>>) \o <<" ", "/", "2", "4">>

\* C10: for every address a and prefix p in 0..32, summarize(a/p) reports
\* total_addresses = 2^(32-p) without wrap-around: 4294967296 at p = 0 and
\* 1 at p = 32.
C10_TotalAddresses ==
    \A a \in SampleAddrs, p \in Prefixes :
        (Summarized /\ target = CidrStr[a, p]) =>
            /\ out.total_addresses = Shl(One, 32 - p)
            /\ p = 0 => StrOfInt(out.total_addresses) =
                            <<"4", "2", "9", "4", "9", "6", "7", "2", "9", "6">>
            /\ p = 32 => StrOfInt(out.total_addresses) = <<"1">>
C10_Witness ==
    /\ pc = "exited"
    /\ target = CidrStr[<<10, 0, 0, 1>>, 0]
    /\ stdout[6].value = <<"4", "2", "9", "4", "9", "6", "7", "2", "9", "6">>

====
